---- MODULE Spec2Model ----
(***************************************************************************)
(* Model of the transaction streamer (src/src/main.py): the Redis-backed   *)
(* store with expiring keys, the startup wipe and foreground loop of       *)
(* run(), the supervisor loop run_transaction_stream() with its publish /  *)
(* reconnect-and-retry sequence, connect_to_redis() and the index cleanup  *)
(* _cleanup_expired_keys().  Every Redis command is one step; the store    *)
(* being unreachable (redis.ConnectionError) and the passing of time       *)
(* (key expiry) are steps of the environment.                              *)
(***************************************************************************)
EXTENDS Integers, FiniteSets, Sequences, TLC

(* ------------------------------ bounds --------------------------------- *)
\* values uuid4().hex[:8] can take
NSuffix == 2
\* events the feed yields in one run (heartbeats included)
MaxFeed == 3
\* ConnectionErrors the store raises in one run (failed reconnections apart)
MaxFaults == 2
\* quanta of time that pass in one run
MaxTicks == 2

(* ------------------------ program constants ---------------------------- *)
max_retries == 10
InitialRetryDelay == 5
RetryDelayCap == 60
max_redis_retries == 5
redis_retry_delay == 2
DefaultTransactionTTL == 300
DefaultIndexTTL == 600

None == "None"
\* a key / event / count variable that holds nothing
NoKey == [type |-> None, id |-> None, sfx |-> 0]
NoEvent == [id |-> None, type |-> None]
Unset == -1
\* retry_delay is a float that takes the values 5 * 1.5^k: it is kept in
\* units of 1/128 second, in which every value it takes is an integer
DelayScale == 2 ^ 7
\* time advances in steps of one default record lifetime
Quantum == DefaultTransactionTTL

(* ------------------------------ inputs --------------------------------- *)
Suffixes == 1 .. NSuffix
AccountId == "ACC"
HEARTBEAT == "HEARTBEAT"
Events == { [id |-> None, type |-> HEARTBEAT],
            [id |-> "T1", type |-> "ORDER_FILL"],
            [id |-> "T2", type |-> "ORDER_FILL"] }
\* config/stream_transaction.json: absent, or its "ttl" object
\* (a value that may be missing is a sequence of length 0 or 1)
ConfigFiles == { [present |-> FALSE, transaction_data |-> << >>, transaction_index |-> << >>],
                 [present |-> TRUE, transaction_data |-> << >>, transaction_index |-> <<300>>] }
\* the --ttl command line argument
CliTTLs == { << >>, <<0>>, <<300>>, <<600>> }

(* --------------------------- pure functions ---------------------------- *)
\* load_config: the TTLs after reading the config file
LoadConfig(file) ==
    IF ~file.present
    THEN [transaction_ttl |-> DefaultTransactionTTL, index_ttl |-> DefaultIndexTTL]
    ELSE [transaction_ttl |-> IF file.transaction_data = << >>
                              THEN DefaultTransactionTTL ELSE file.transaction_data[1],
          index_ttl |-> IF file.transaction_index = << >>
                        THEN DefaultIndexTTL ELSE file.transaction_index[1]]

\* __init__: a CLI TTL overrides the configured one when it is positive
CliOverride(cli, configured) ==
    IF cli = << >> THEN configured
    ELSE IF cli[1] <= 0 THEN configured ELSE cli[1]

\* the f-string building a StoreKey: prefix, type, natural id, random suffix
MakeKey(type, id, sfx) == [type |-> type, id |-> id, sfx |-> sfx]

\* (variant: no event is taken for a heartbeat)
IsHeartbeat_none(type) == FALSE
\* transaction_type == 'HEARTBEAT'
IsHeartbeat(type) == type = HEARTBEAT

\* (variant: the loop never gives up)
BudgetExhausted_never(count) == FALSE
\* (variant: > for >=)
BudgetExhausted_strict(count) == max_retries > 0 /\ count > max_retries
\* retry_count >= max_retries
BudgetExhausted(count) == max_retries > 0 /\ count >= max_retries

\* (variant: the cap forgotten)
NextDelay_uncapped(d) == (d * 3) \div 2
\* min(retry_delay * 1.5, 60)
NextDelay(d) ==
    IF (d * 3) \div 2 < RetryDelayCap * DelayScale
    THEN (d * 3) \div 2 ELSE RetryDelayCap * DelayScale

EmptyStore == [x \in {} |-> 0]

(* Redis commands on the record keyspace (a function key -> remaining      *)
(* lifetime) and on the index set.                                         *)
Setex(s, k, ttl) == [x \in DOMAIN s \cup {k} |-> IF x = k THEN ttl ELSE s[x]]
\* (variant: the test negated)
Exists_negated(s, k) == k \notin DOMAIN s
Exists(s, k) == k \in DOMAIN s
Delete(s, ks) == [x \in DOMAIN s \ ks |-> s[x]]
\* (variant: the member is not added)
Sadd_lost(idx, k) == idx
Sadd(idx, k) == idx \cup {k}
\* (variant: nothing is removed)
Srem_none(idx, ks) == idx
Srem(idx, ks) == idx \ ks
Scard(idx) == Cardinality(idx)
\* a set key exists only while it has members; sadd creates it without expiry
ExpAfterSadd(idx, exp) == IF idx = {} THEN -1 ELSE exp
ExpAfterSrem(idx2, exp) == IF idx2 = {} THEN -1 ELSE exp
\* expire(key, ttl) on an existing key
Expire(idx, exp, ttl) == IF idx = {} THEN exp ELSE ttl

\* the store after one quantum of time: keys whose lifetime ran out are gone
Aged(s) == [x \in {y \in DOMAIN s : s[y] > Quantum} |-> s[x] - Quantum]
IndexGone(exp) == exp # -1 /\ exp <= Quantum

(* ------------------------------ state ---------------------------------- *)
VARIABLES
    transaction_ttl, index_ttl,         \* self.transaction_ttl, self.index_ttl
    store,                              \* keys under transaction_data: -> lifetime left
    index, index_exp,                   \* the set transaction_index, its lifetime (-1: none)
    stream_len,                         \* entries of the stream transaction_stream
    feed_left, snaps_left,              \* events / snapshots the broker will still deliver
    faults_left,                        \* ConnectionErrors the store will still raise
    ticks_left,                         \* quanta of time that will still pass
    budget0,                            \* history: what feed_left .. ticks_left started from
    main_pc, old_keys,                  \* run()
    sup_pc, phase, retry_count, retry_delay,
    state_key, transaction, transaction_key, queue_length,
    attempt,                            \* connect_to_redis
    transaction_keys, expired_keys,     \* _cleanup_expired_keys
    fails,                              \* history: cycles ended since the last published transaction
    dead0, cleanup_ok,                  \* history: index keys already dead at smembers; pass completed
    yielded, cycle,                     \* history: events of the first cycle; cycles begun (capped at 2)
    tries, connects,                    \* history: keys generated / connect_to_redis calls for the current event
    slept,                              \* history: seconds slept inside the current connect_to_redis call
    written,                            \* history: the live records this run has written
    passes, sleeps,                     \* history: loop passes begun / backoff sleeps since the last published transaction
    quiet, beat,                        \* history: cycles in a row that delivered heartbeats only; what this one delivered
    left_by                             \* history: how the pass left the feed: "end" of the sequence or "exception"

cfgvars == <<transaction_ttl, index_ttl>>
dbvars == <<store, index, index_exp, stream_len>>
feedvars == <<feed_left, snaps_left>>
envvars == <<feedvars, faults_left, ticks_left>>
mainvars == <<main_pc, old_keys>>
loopvars == <<retry_count, retry_delay, fails>>
pubvars == <<state_key, transaction, transaction_key, queue_length, phase>>
cleanvars == <<transaction_keys, expired_keys, dead0, cleanup_ok>>
histvars == <<yielded, cycle>>
eventvars == <<tries, connects, slept>>
tallyvars == <<eventvars, written, passes, sleeps, quiet, beat, left_by>>
vars == <<cfgvars, budget0, dbvars, envvars, mainvars, sup_pc, loopvars, pubvars,
          attempt, cleanvars, histvars, tallyvars>>

\* what an earlier run may have left behind: nothing, one record, or three
\* records, each with the index that names them
PriorKeys == { MakeKey("ORDER_FILL", "T1", 1), MakeKey("ORDER_FILL", "T2", 1),
               MakeKey("account_state", AccountId, 1) }
Left(keys) == [store |-> [k \in keys |-> Quantum], index |-> keys,
               index_exp |-> IF keys = {} THEN -1 ELSE Quantum]

\* the state after __init__, for a choice of config file, --ttl, prior
\* content of the store, and of what the broker (which events, how many of
\* them, how many snapshots) and the store will do
Boot(files, clis, prior, events, feed, snaps, faults, ticks) ==
    /\ \E file \in files, cli \in clis :
          /\ transaction_ttl = CliOverride(cli, LoadConfig(file).transaction_ttl)
          /\ index_ttl = LoadConfig(file).index_ttl
    /\ store = prior.store /\ index = prior.index /\ index_exp = prior.index_exp
    /\ feed_left = feed /\ snaps_left = snaps /\ faults_left = faults
    /\ ticks_left = ticks
    /\ budget0 = [events |-> events, feed |-> feed, snaps |-> snaps,
                  faults |-> faults, ticks |-> ticks]
    /\ stream_len = 0
    /\ main_pc = "wipe_keys" /\ old_keys = {}
    /\ sup_pc = "idle" /\ phase = 1
    /\ retry_count = 0 /\ retry_delay = InitialRetryDelay * DelayScale
    /\ state_key = NoKey /\ transaction = NoEvent /\ transaction_key = NoKey
    /\ queue_length = Unset
    /\ attempt = 0
    /\ transaction_keys = {} /\ expired_keys = {}
    /\ fails = 0 /\ dead0 = {} /\ cleanup_ok = FALSE
    /\ yielded = << >> /\ cycle = 0
    /\ tries = 0 /\ connects = 0 /\ slept = 0
    /\ written = {}
    /\ passes = 0 /\ sleeps = 0
    /\ quiet = 0 /\ beat = "none" /\ left_by = "none"

\* a Redis command that raises ConnectionError uses up one of the faults
Fault(ok) ==
    /\ IF ok THEN UNCHANGED faults_left
             ELSE faults_left > 0 /\ faults_left' = faults_left - 1
    /\ UNCHANGED ticks_left

(* ------------------------------- run() --------------------------------- *)
\* the process lives until the main thread leaves run(); the supervisor is a
\* daemon thread and runs only while the process does
Running == main_pc = "loop"

\* old_keys = keys("transaction_data:*")
WipeKeys(ok) ==
    /\ main_pc = "wipe_keys"
    /\ Fault(ok)
    /\ IF ok
       THEN /\ old_keys' = DOMAIN store
            /\ main_pc' = IF DOMAIN store # {} THEN "wipe_delete" ELSE "wipe_index"
       ELSE /\ main_pc' = "start" /\ UNCHANGED old_keys
    /\ UNCHANGED <<cfgvars, budget0, dbvars, feedvars, sup_pc, loopvars,
                   pubvars, attempt, cleanvars, histvars, tallyvars>>

\* delete(*old_keys)
WipeDelete(ok) ==
    /\ main_pc = "wipe_delete"
    /\ Fault(ok)
    /\ IF ok
       THEN /\ store' = Delete(store, old_keys)
            /\ main_pc' = "wipe_index"
       ELSE /\ main_pc' = "start" /\ UNCHANGED store
    /\ UNCHANGED <<cfgvars, budget0, index, index_exp, stream_len, feedvars, old_keys,
                   sup_pc, loopvars, pubvars, attempt, cleanvars, histvars, tallyvars>>

\* delete("transaction_index")
WipeIndex(ok) ==
    /\ main_pc = "wipe_index"
    /\ Fault(ok)
    /\ IF ok
       THEN index' = {} /\ index_exp' = -1
       ELSE UNCHANGED <<index, index_exp>>
    /\ main_pc' = "start"
    /\ UNCHANGED <<cfgvars, budget0, store, stream_len, feedvars, old_keys,
                   sup_pc, loopvars, pubvars, attempt, cleanvars, histvars, tallyvars>>

\* transaction_thread.start()
StartThread ==
    /\ main_pc = "start"
    /\ main_pc' = "loop"
    /\ sup_pc' = "top"
    /\ UNCHANGED <<cfgvars, budget0, dbvars, envvars, old_keys, loopvars,
                   pubvars, attempt, cleanvars, histvars, tallyvars>>

\* the process exits: its threads and their variables are gone, the store stays
Exited ==
    /\ sup_pc' = "killed" /\ phase' = 1
    /\ retry_count' = 0 /\ retry_delay' = InitialRetryDelay * DelayScale
    /\ state_key' = NoKey /\ transaction' = NoEvent /\ transaction_key' = NoKey
    /\ queue_length' = Unset /\ old_keys' = {}
    /\ attempt' = 0
    /\ transaction_keys' = {} /\ expired_keys' = {}
    /\ fails' = 0 /\ dead0' = {} /\ cleanup_ok' = FALSE
    /\ yielded' = << >> /\ cycle' = 0
    /\ tries' = 0 /\ connects' = 0 /\ slept' = 0
    /\ written' = {}
    /\ passes' = 0 /\ sleeps' = 0
    /\ quiet' = 0 /\ beat' = "none" /\ left_by' = "none"

\* one round of the foreground loop: sleep(30), then scard, whose result is
\* printed and not kept; a ConnectionError is not caught and ends run()
ActiveCount(idx) == Scard(idx)

\* (variant: the foreground loop prunes the index it has counted)
MainCount_pruning(ok) ==
    /\ main_pc = "loop"
    /\ Fault(ok)
    /\ IF ok
       THEN /\ index' = Srem(index, {k \in index : ~Exists(store, k)})
            /\ index_exp' = ExpAfterSrem(Srem(index, {k \in index : ~Exists(store, k)}),
                                         index_exp)
            /\ UNCHANGED <<store, stream_len, main_pc, old_keys, sup_pc, loopvars, pubvars,
                           attempt, cleanvars, histvars, tallyvars>>
       ELSE main_pc' = "crashed" /\ Exited /\ UNCHANGED dbvars
    /\ UNCHANGED <<cfgvars, budget0, feedvars>>

MainCount(ok) ==
    /\ main_pc = "loop"
    /\ Fault(ok)
    /\ IF ok
       THEN /\ ActiveCount(index) >= 0
            /\ UNCHANGED <<main_pc, old_keys, sup_pc, loopvars, pubvars, attempt,
                           cleanvars, histvars, tallyvars>>
       ELSE main_pc' = "crashed" /\ Exited
    /\ UNCHANGED <<cfgvars, budget0, dbvars, feedvars>>

\* KeyboardInterrupt in the foreground loop
Interrupt ==
    /\ main_pc = "loop"
    /\ main_pc' = "stopped"
    /\ Exited
    /\ UNCHANGED <<cfgvars, budget0, dbvars, envvars>>

(* ---------------- run_transaction_stream(): connecting ------------------ *)
mainframe == <<cfgvars, budget0, mainvars>>

\* top of the while loop: get_account_state(); a usable state gets a key
FetchAccountState(result, sfx) ==
    /\ Running /\ sup_pc = "top"
    /\ IF result = "ok"
       THEN /\ snaps_left > 0
            /\ snaps_left' = snaps_left - 1
            /\ state_key' = MakeKey("account_state", AccountId, sfx)
            /\ sup_pc' = "as_setex"
       ELSE /\ sup_pc' = "open"
            /\ UNCHANGED <<snaps_left, state_key>>
    /\ cycle' = IF cycle < 2 THEN cycle + 1 ELSE cycle
    /\ yielded' = << >>
    /\ passes' = passes + 1
    /\ left_by' = "none"
    /\ UNCHANGED <<mainframe, dbvars, feed_left, faults_left, ticks_left, loopvars, transaction,
                   transaction_key, queue_length, phase, attempt, cleanvars,
                   eventvars, written, sleeps, quiet, beat>>

\* setex(state_key, transaction_ttl, ...); any exception skips the snapshot
AsSetex(ok) ==
    /\ Running /\ sup_pc = "as_setex"
    /\ Fault(ok)
    /\ IF ok
       THEN store' = Setex(store, state_key, transaction_ttl) /\ sup_pc' = "as_sadd"
            /\ written' = written \cup {state_key}
            /\ UNCHANGED state_key
       ELSE sup_pc' = "open" /\ state_key' = NoKey /\ UNCHANGED <<store, written>>
    /\ UNCHANGED <<mainframe, index, index_exp, stream_len, feedvars, loopvars,
                   transaction, transaction_key, queue_length, phase, attempt,
                   cleanvars, histvars, eventvars, passes, sleeps, quiet, beat, left_by>>

\* (variant: the error of the snapshot's sadd reaches the outer handler)
AsSadd_fatal(ok) ==
    /\ Running /\ sup_pc = "as_sadd"
    /\ Fault(ok)
    /\ IF ok
       THEN /\ index' = Sadd(index, state_key)
            /\ index_exp' = ExpAfterSadd(index, index_exp)
            /\ sup_pc' = "as_expire"
            /\ UNCHANGED state_key
       ELSE sup_pc' = "except" /\ state_key' = NoKey /\ UNCHANGED <<index, index_exp>>
    /\ UNCHANGED <<mainframe, store, stream_len, feedvars, loopvars, transaction,
                   transaction_key, queue_length, phase, attempt, cleanvars, histvars, tallyvars>>

\* sadd(transaction_index, state_key)
AsSadd(ok) ==
    /\ Running /\ sup_pc = "as_sadd"
    /\ Fault(ok)
    /\ IF ok
       THEN /\ index' = Sadd(index, state_key)
            /\ index_exp' = ExpAfterSadd(index, index_exp)
            /\ sup_pc' = "as_expire"
            /\ UNCHANGED state_key
       ELSE sup_pc' = "open" /\ state_key' = NoKey /\ UNCHANGED <<index, index_exp>>
    /\ UNCHANGED <<mainframe, store, stream_len, feedvars, loopvars, transaction,
                   transaction_key, queue_length, phase, attempt, cleanvars, histvars, tallyvars>>

\* expire(transaction_index, index_ttl)
AsExpire(ok) ==
    /\ Running /\ sup_pc = "as_expire"
    /\ Fault(ok)
    /\ IF ok
       THEN index_exp' = Expire(index, index_exp, index_ttl) /\ sup_pc' = "as_xadd"
            /\ UNCHANGED state_key
       ELSE sup_pc' = "open" /\ state_key' = NoKey /\ UNCHANGED index_exp
    /\ UNCHANGED <<mainframe, store, index, stream_len, feedvars, loopvars, transaction,
                   transaction_key, queue_length, phase, attempt, cleanvars, histvars, tallyvars>>

\* xadd("transaction_stream", ...), its failure ignored
AsXadd(ok) ==
    /\ Running /\ sup_pc = "as_xadd"
    /\ Fault(ok)
    /\ stream_len' = IF ok THEN stream_len + 1 ELSE stream_len
    /\ sup_pc' = "open"
    /\ state_key' = NoKey
    /\ UNCHANGED <<mainframe, store, index, index_exp, feedvars, loopvars, transaction,
                   transaction_key, queue_length, phase, attempt, cleanvars, histvars, tallyvars>>

\* broker.stream_oanda_transactions(credentials): a new event sequence
OpenFeed ==
    /\ Running /\ sup_pc = "open"
    /\ sup_pc' = "next"
    /\ UNCHANGED <<mainframe, dbvars, envvars, loopvars, pubvars, attempt, cleanvars,
                   histvars, tallyvars>>

(* ----------------- run_transaction_stream(): streaming ------------------ *)
\* (variant: a heartbeat counts as a sign of life and resets the backoff)
FeedYield_resetting(e) ==
    /\ Running /\ sup_pc = "next"
    /\ feed_left > 0
    /\ e \in budget0.events
    /\ feed_left' = feed_left - 1
    /\ yielded' = IF cycle = 1 THEN Append(yielded, e) ELSE yielded
    /\ IF IsHeartbeat(e.type)
       THEN /\ beat' = IF beat = "none" THEN "only" ELSE beat
            /\ retry_count' = 0 /\ retry_delay' = InitialRetryDelay * DelayScale
            /\ UNCHANGED <<sup_pc, transaction, phase, fails>>
       ELSE /\ transaction' = e /\ phase' = 1 /\ sup_pc' = "keygen"
            /\ beat' = "mixed"
            /\ UNCHANGED loopvars
    /\ UNCHANGED <<mainframe, dbvars, snaps_left, faults_left, ticks_left, state_key,
                   transaction_key, queue_length, attempt, cleanvars, cycle,
                   eventvars, written, passes, sleeps, quiet, left_by>>

\* the feed yields an event; a heartbeat is skipped
FeedYield(e) ==
    /\ Running /\ sup_pc = "next"
    /\ feed_left > 0
    /\ e \in budget0.events
    /\ feed_left' = feed_left - 1
    /\ yielded' = IF cycle = 1 THEN Append(yielded, e) ELSE yielded
    /\ IF IsHeartbeat(e.type)
       THEN /\ beat' = IF beat = "none" THEN "only" ELSE beat
            /\ UNCHANGED <<sup_pc, transaction, phase>>
       ELSE /\ transaction' = e /\ phase' = 1 /\ sup_pc' = "keygen"
            /\ beat' = "mixed"
    /\ UNCHANGED <<mainframe, dbvars, snaps_left, faults_left, ticks_left, loopvars, state_key,
                   transaction_key, queue_length, attempt, cleanvars, cycle,
                   eventvars, written, passes, sleeps, quiet, left_by>>

\* the event sequence terminates
FeedEnds ==
    /\ Running /\ sup_pc = "next"
    /\ sup_pc' = "ended"
    /\ UNCHANGED <<mainframe, dbvars, envvars, loopvars, pubvars, attempt, cleanvars,
                   histvars, tallyvars>>

\* the feed adapter raises
FeedRaises ==
    /\ Running /\ sup_pc = "next"
    /\ sup_pc' = "except"
    /\ UNCHANGED <<mainframe, dbvars, envvars, loopvars, pubvars, attempt, cleanvars,
                   histvars, tallyvars>>

\* transaction_key = f"...{uuid.uuid4().hex[:8]}", first attempt and retry
GenKey(sfx) ==
    /\ Running /\ sup_pc = "keygen"
    /\ transaction_key' = MakeKey(transaction.type, transaction.id, sfx)
    /\ sup_pc' = "setex"
    /\ tries' = tries + 1
    /\ slept' = 0
    /\ UNCHANGED <<mainframe, dbvars, envvars, loopvars, state_key, transaction,
                   queue_length, phase, attempt, cleanvars, histvars,
                   connects, written, passes, sleeps, quiet, beat, left_by>>

\* (variant: the retry reconnects again)
AfterPublishError_again(ph) == "connect"
\* where a ConnectionError in the publish sequence leads: from the first
\* attempt to the reconnect, from the retry to the outer handler
AfterPublishError(ph) == IF ph = 1 THEN "connect" ELSE "except"

\* setex(transaction_key, transaction_ttl, ...)
PubSetex(ok) ==
    /\ Running /\ sup_pc = "setex"
    /\ Fault(ok)
    /\ IF ok
       THEN /\ store' = Setex(store, transaction_key, transaction_ttl) /\ sup_pc' = "sadd"
            /\ written' = written \cup {transaction_key}
       ELSE sup_pc' = AfterPublishError(phase) /\ UNCHANGED <<store, written>>
    /\ UNCHANGED <<attempt, mainframe, index, index_exp, stream_len, feedvars, loopvars, pubvars,
                   cleanvars, histvars, eventvars, passes, sleeps, quiet, beat, left_by>>

\* sadd(transaction_index, transaction_key)
PubSadd(ok) ==
    /\ Running /\ sup_pc = "sadd"
    /\ Fault(ok)
    /\ IF ok
       THEN /\ index' = Sadd(index, transaction_key)
            /\ index_exp' = ExpAfterSadd(index, index_exp)
            /\ sup_pc' = "expire"
       ELSE sup_pc' = AfterPublishError(phase) /\ UNCHANGED <<index, index_exp>>
    /\ UNCHANGED <<attempt, mainframe, store, stream_len, feedvars, loopvars, pubvars, cleanvars,
                   histvars, tallyvars>>

\* expire(transaction_index, index_ttl)
PubExpire(ok) ==
    /\ Running /\ sup_pc = "expire"
    /\ Fault(ok)
    /\ IF ok
       THEN index_exp' = Expire(index, index_exp, index_ttl) /\ sup_pc' = "scard"
       ELSE sup_pc' = AfterPublishError(phase) /\ UNCHANGED index_exp
    /\ UNCHANGED <<attempt, mainframe, store, index, stream_len, feedvars, loopvars, pubvars,
                   cleanvars, histvars, tallyvars>>

\* queue_length = scard(transaction_index)
PubScard(ok) ==
    /\ Running /\ sup_pc = "scard"
    /\ Fault(ok)
    /\ IF ok
       THEN queue_length' = Scard(index) /\ sup_pc' = "smembers"
       ELSE sup_pc' = AfterPublishError(phase) /\ UNCHANGED queue_length
    /\ UNCHANGED <<attempt, mainframe, dbvars, feedvars, loopvars, state_key, transaction,
                   transaction_key, phase, cleanvars, histvars, tallyvars>>

(* ---------------------- _cleanup_expired_keys() ------------------------- *)
\* transaction_keys = smembers(transaction_index); a ConnectionError anywhere
\* in the pass ends it silently
CleanSmembers(ok) ==
    /\ Running /\ sup_pc = "smembers"
    /\ Fault(ok)
    /\ IF ok
       THEN /\ transaction_keys' = index
            /\ dead0' = {k \in index : ~Exists(store, k)}
            /\ sup_pc' = "exists"
       ELSE /\ sup_pc' = "reset"
            /\ UNCHANGED <<transaction_keys, dead0>>
    /\ expired_keys' = {}
    /\ cleanup_ok' = FALSE
    /\ UNCHANGED <<mainframe, dbvars, feedvars, loopvars, pubvars, attempt, histvars, tallyvars>>

\* one round of the for loop: exists(key), in the set's iteration order
CleanExists(k, ok) ==
    /\ Running /\ sup_pc = "exists"
    /\ Fault(ok)
    /\ k \in transaction_keys
    /\ IF ok
       THEN /\ expired_keys' = IF Exists(store, k) THEN expired_keys
                                                  ELSE expired_keys \cup {k}
            /\ transaction_keys' = transaction_keys \ {k}
            /\ UNCHANGED sup_pc
       ELSE /\ sup_pc' = "reset"
            /\ transaction_keys' = {} /\ expired_keys' = {}
    /\ UNCHANGED <<mainframe, dbvars, feedvars, loopvars, pubvars, attempt, dead0,
                   cleanup_ok, histvars, tallyvars>>

\* if expired_keys: srem(transaction_index, *expired_keys); then return
CleanSrem(ok) ==
    /\ Running /\ sup_pc = "exists"
    /\ transaction_keys = {}
    /\ IF expired_keys = {}
       THEN ok /\ cleanup_ok' = TRUE
            /\ UNCHANGED <<index, index_exp, faults_left, ticks_left>>
       ELSE /\ Fault(ok)
            /\ IF ok
               THEN /\ index' = Srem(index, expired_keys)
                    /\ index_exp' = ExpAfterSrem(Srem(index, expired_keys), index_exp)
                    /\ cleanup_ok' = TRUE
               ELSE UNCHANGED <<index, index_exp, cleanup_ok>>
    /\ sup_pc' = "reset"
    /\ expired_keys' = {}
    /\ UNCHANGED <<mainframe, store, stream_len, feedvars, loopvars, pubvars, attempt,
                   transaction_keys, dead0, histvars, tallyvars>>

\* after a publish: retry_count = 0; retry_delay = 5; back to the feed
Reset ==
    /\ Running /\ sup_pc = "reset"
    /\ retry_count' = 0
    /\ retry_delay' = InitialRetryDelay * DelayScale
    /\ fails' = 0
    /\ sup_pc' = "next"
    /\ transaction' = NoEvent /\ transaction_key' = NoKey /\ phase' = 1
    /\ queue_length' = Unset
    /\ dead0' = {} /\ cleanup_ok' = FALSE
    /\ tries' = 0 /\ connects' = 0
    /\ passes' = 1 /\ sleeps' = 0
    /\ quiet' = 0
    /\ UNCHANGED <<mainframe, dbvars, envvars, state_key, attempt,
                   transaction_keys, expired_keys, histvars, slept, written, beat, left_by>>

(* ------------------------- connect_to_redis() --------------------------- *)
LastAttempt(a) == ~(a < max_redis_retries - 1)

\* what one attempt can do: return, raise redis.ConnectionError (connection
\* refused), or raise an exception of another class (redis.TimeoutError once
\* socket_connect_timeout has run out)
ConnectOutcome == {"ok", "ConnectionError", "TimeoutError"}

\* one attempt: Redis(...), ping(), config_set; on success the publish is
\* retried; only redis.ConnectionError is caught, anything else leaves the
\* call at once
Connect(r) ==
    /\ Running /\ sup_pc = "connect"
    /\ connects' = IF attempt = 0 THEN connects + 1 ELSE connects
    /\ CASE r = "ok" ->
              sup_pc' = "keygen" /\ phase' = 2 /\ attempt' = 0
         [] r = "ConnectionError" ->
              /\ sup_pc' = IF LastAttempt(attempt) THEN "except" ELSE "conn_sleep"
              /\ attempt' = IF LastAttempt(attempt) THEN 0 ELSE attempt
              /\ UNCHANGED phase
         [] OTHER ->
              sup_pc' = "except" /\ attempt' = 0 /\ UNCHANGED phase
    /\ UNCHANGED <<mainframe, dbvars, envvars, loopvars, state_key, transaction,
                   transaction_key, queue_length, cleanvars, histvars,
                   tries, slept, written, passes, sleeps, quiet, beat, left_by>>

\* time.sleep(redis_retry_delay), then the next attempt
ConnectSleep ==
    /\ Running /\ sup_pc = "conn_sleep"
    /\ attempt' = attempt + 1
    /\ slept' = slept + redis_retry_delay
    /\ sup_pc' = "connect"
    /\ UNCHANGED <<mainframe, dbvars, envvars, loopvars, pubvars, cleanvars, histvars,
                   tries, connects, written, passes, sleeps, quiet, beat, left_by>>

(* ----------------- run_transaction_stream(): backing off ---------------- *)
\* (variant: a sequence that ends normally is not counted)
StreamEnded_uncounted ==
    /\ Running /\ sup_pc = "ended"
    /\ sup_pc' = "check"
    /\ yielded' = << >>
    /\ quiet' = IF beat = "only" THEN quiet + 1 ELSE 0
    /\ beat' = "none" /\ left_by' = "end"
    /\ UNCHANGED <<mainframe, dbvars, envvars, loopvars, pubvars, attempt, cleanvars, cycle,
                   eventvars, written, passes, sleeps>>

\* after the for loop: retry_count += 1
StreamEnded ==
    /\ Running /\ sup_pc = "ended"
    /\ retry_count' = retry_count + 1
    /\ fails' = fails + 1
    /\ UNCHANGED retry_delay
    /\ sup_pc' = "check"
    /\ yielded' = << >>
    /\ quiet' = IF beat = "only" THEN quiet + 1 ELSE 0
    /\ beat' = "none" /\ left_by' = "end"
    /\ UNCHANGED <<mainframe, dbvars, envvars, pubvars, attempt, cleanvars, cycle,
                   eventvars, written, passes, sleeps>>

\* except Exception: retry_count += 1
StreamFailed ==
    /\ Running /\ sup_pc = "except"
    /\ retry_count' = retry_count + 1
    /\ fails' = fails + 1
    /\ UNCHANGED retry_delay
    /\ sup_pc' = "check"
    /\ yielded' = << >>
    /\ transaction' = NoEvent /\ transaction_key' = NoKey /\ phase' = 1
    /\ quiet' = IF beat = "only" THEN quiet + 1 ELSE 0
    /\ beat' = "none" /\ left_by' = "exception"
    /\ tries' = 0 /\ connects' = 0 /\ slept' = 0
    /\ UNCHANGED <<mainframe, dbvars, envvars, state_key, queue_length, attempt,
                   cleanvars, cycle, written, passes, sleeps>>

\* if max_retries > 0 and retry_count >= max_retries: break
CheckBudget ==
    /\ Running /\ sup_pc = "check"
    /\ sup_pc' = IF BudgetExhausted(retry_count) THEN "given_up" ELSE "sleep"
    /\ UNCHANGED <<mainframe, dbvars, envvars, loopvars, pubvars, attempt, cleanvars,
                   histvars, tallyvars>>

\* time.sleep(retry_delay); retry_delay = min(retry_delay * 1.5, 60)
Backoff ==
    /\ Running /\ sup_pc = "sleep"
    /\ retry_delay' = NextDelay(retry_delay)
    /\ sleeps' = sleeps + 1
    /\ sup_pc' = "top"
    /\ UNCHANGED <<mainframe, dbvars, envvars, retry_count, fails, pubvars, attempt,
                   cleanvars, histvars, eventvars, written, passes, quiet, beat, left_by>>

(* ---------------------------- environment ------------------------------- *)
\* one quantum of time passes: lifetimes shrink, expired keys vanish
Tick ==
    /\ main_pc \notin {"crashed", "stopped"}
    /\ ticks_left > 0
    /\ ticks_left' = ticks_left - 1
    /\ DOMAIN store # {} \/ index_exp > 0
    /\ store' = Aged(store)
    /\ written' = written \cap DOMAIN Aged(store)
    /\ IF IndexGone(index_exp)
       THEN index' = {} /\ index_exp' = -1
       ELSE /\ index_exp' = IF index_exp = -1 THEN -1 ELSE index_exp - Quantum
            /\ UNCHANGED index
    /\ UNCHANGED <<cfgvars, budget0, stream_len, feedvars, faults_left, mainvars, sup_pc, loopvars,
                   pubvars, attempt, cleanvars, histvars, eventvars, passes, sleeps,
                   quiet, beat, left_by>>

\* every Redis command either succeeds or raises redis.ConnectionError
Outcome == BOOLEAN

Next ==
    \/ \E ok \in Outcome : WipeKeys(ok) \/ WipeDelete(ok) \/ WipeIndex(ok) \/ MainCount(ok)
    \/ StartThread \/ Interrupt
    \/ \E r \in {"ok", "error", "raise"}, sfx \in Suffixes : FetchAccountState(r, sfx)
    \/ \E ok \in Outcome : AsSetex(ok) \/ AsSadd(ok) \/ AsExpire(ok) \/ AsXadd(ok)
    \/ OpenFeed
    \/ \E e \in Events : FeedYield(e)
    \/ FeedEnds \/ FeedRaises
    \/ \E sfx \in Suffixes : GenKey(sfx)
    \/ \E ok \in Outcome : PubSetex(ok) \/ PubSadd(ok) \/ PubExpire(ok) \/ PubScard(ok)
    \/ \E ok \in Outcome : CleanSmembers(ok) \/ CleanSrem(ok)
    \/ \E k \in transaction_keys, ok \in Outcome : CleanExists(k, ok)
    \/ Reset
    \/ \E r \in ConnectOutcome : Connect(r)
    \/ ConnectSleep
    \/ StreamEnded \/ StreamFailed \/ CheckBudget \/ Backoff
    \/ Tick

DefaultFiles == {f \in ConfigFiles : ~f.present}
\* a broker with no transactions to report
Heartbeats == {e \in Events : e.type = HEARTBEAT}
\* no --ttl, or one that is rejected
NoOverride == {c \in CliTTLs : c = << >> \/ c[1] <= 0}

\* the runs explored, each with what the broker delivers (events, snapshots)
\* and what the store does (ConnectionErrors, quanta of time that pass):
\* a long feed on a reliable store; a short feed on a store that fails; a
\* feed whose records expire; a store that holds the records of an earlier
\* run; a configuration other than the default; an account on which nothing
\* happens through max_retries cycles
Init ==
    \/ Boot(DefaultFiles, NoOverride, Left({}), Events, MaxFeed, 1, 0, 0)
    \/ Boot(DefaultFiles, NoOverride, Left({}), Events, 1, 1, MaxFaults, 1)
    \/ Boot(DefaultFiles, NoOverride, Left({}), Events, 2, 0, 0, MaxTicks)
    \/ Boot(DefaultFiles, NoOverride, Left(PriorKeys), Events, 1, 0, 1, 1)
    \/ Boot(ConfigFiles, CliTTLs, Left({}), Events, 1, 1, 0, MaxTicks)
    \/ Boot(DefaultFiles, NoOverride, Left({}), Heartbeats, max_retries, 0, 0, 0)

Spec == Init /\ [][Next]_vars

\* the steps of run() up to the start of the thread, and the steps of the
\* supervisor thread: every Redis command, broker call and sleep returns,
\* and every event sequence ends or raises
Startup ==
    \/ \E ok \in Outcome : WipeKeys(ok) \/ WipeDelete(ok) \/ WipeIndex(ok)
    \/ StartThread
Supervisor ==
    \/ \E r \in {"ok", "error", "raise"}, sfx \in Suffixes : FetchAccountState(r, sfx)
    \/ \E ok \in Outcome : AsSetex(ok) \/ AsSadd(ok) \/ AsExpire(ok) \/ AsXadd(ok)
    \/ OpenFeed
    \/ \E e \in Events : FeedYield(e)
    \/ FeedEnds \/ FeedRaises
    \/ \E sfx \in Suffixes : GenKey(sfx)
    \/ \E ok \in Outcome : PubSetex(ok) \/ PubSadd(ok) \/ PubExpire(ok) \/ PubScard(ok)
    \/ \E ok \in Outcome : CleanSmembers(ok) \/ CleanSrem(ok)
    \/ \E k \in transaction_keys, ok \in Outcome : CleanExists(k, ok)
    \/ Reset
    \/ \E r \in ConnectOutcome : Connect(r)
    \/ ConnectSleep
    \/ StreamEnded \/ StreamFailed \/ CheckBudget \/ Backoff

\* runs in which both threads keep being scheduled: a store that holds an
\* earlier run's records and fails once; a feed whose records expire; an
\* account on which nothing happens but for one snapshot
LiveInit ==
    \/ Boot(DefaultFiles, NoOverride, Left(PriorKeys), Events, 1, 0, 1, 1)
    \/ Boot(DefaultFiles, NoOverride, Left({}), Events, 2, 0, 0, MaxTicks)
    \/ Boot(DefaultFiles, NoOverride, Left({}), Heartbeats, max_retries, 1, 0, 0)

LiveSpec == LiveInit /\ [][Next]_vars /\ WF_vars(Startup) /\ WF_vars(Supervisor)

(* ============================== claims ================================= *)
FaultsUsed == budget0.faults - faults_left
TicksUsed == budget0.ticks - ticks_left
SnapsUsed == budget0.snaps - snaps_left
\* the records in the store that carry the type and id of event e
RecordsOf(e) == {k \in DOMAIN store : k.type = e.type /\ k.id = e.id}
Stale(idx, s) == {k \in idx : k \notin DOMAIN s}

\* C1: when exactly one ConnectionError hit the first publish attempt and the
\* reconnect and the retried sequence succeeded (no time having passed), the
\* store holds exactly one record for the event
C1_ExactlyOnce ==
    (sup_pc = "reset" /\ phase = 2 /\ FaultsUsed = 1 /\ TicksUsed = 0)
        => Cardinality(RecordsOf(transaction)) = 1

\* C2: the supervisor is in given_up only with 10 cycles failed in a row since
\* the last published transaction, it never goes on past the check with 10
\* of them, and once given up it fetches nothing, requests no feed, writes
\* nothing to the store and sleeps no more
C2_GivenUpAt10 ==
    /\ [](/\ sup_pc = "given_up" => fails = 10
          /\ fails >= 10 => sup_pc \in {"check", "given_up"})
    /\ [][sup_pc = "given_up" =>
             \/ sup_pc' = "killed"
             \/ /\ sup_pc' = "given_up"
                /\ UNCHANGED <<feedvars, stream_len, loopvars, pubvars, attempt>>
                /\ DOMAIN store' \subseteq DOMAIN store
                /\ \A k \in DOMAIN store' : store'[k] <= store[k]
                /\ index' \subseteq index
                /\ index_exp' <= index_exp]_vars
C2_Witness == sup_pc = "given_up" /\ fails = 10 /\ index # {}

\* min(5 * 1.5^(n-1), 60) in units of 1/128
ExpectedDelay(n) ==
    IF 5 * 3 ^ (n - 1) >= 60 * 2 ^ (n - 1)
    THEN 60 * DelayScale
    ELSE (5 * 3 ^ (n - 1) * DelayScale) \div 2 ^ (n - 1)

\* C3: the delay slept after the N-th failure in a row (N = 1..9, counted
\* from the last published transaction) is min(5 * 1.5^(N-1), 60)
C3_BackoffDelay ==
    sup_pc = "sleep" => /\ fails \in 1 .. 9
                        /\ retry_count = fails
                        /\ retry_delay = ExpectedDelay(fails)
C3_Witness == sup_pc = "sleep" /\ fails = 9 /\ retry_delay = 60 * DelayScale /\ index # {}

\* C4 (as claimed): whenever a cleanup pass returns, every key of the index
\* has a record in the store
C4_NoStaleAtReturn ==
    [][(sup_pc \in {"smembers", "exists"} /\ sup_pc' = "reset")
          => Stale(index', store') = {}]_vars
\* C4 (amended): when a cleanup pass returns without having met a
\* ConnectionError, the index holds none of the keys whose record was
\* already gone when the pass read the index
C4_PrunesWhatWasDead ==
    (sup_pc = "reset" /\ cleanup_ok) => index \cap dead0 = {}
C4_Witness == sup_pc = "reset" /\ cleanup_ok /\ dead0 # {} /\ index # {}

\* C5: a heartbeat is never the event being published, and no record and no
\* index entry carries its type
C5_NoHeartbeatStored ==
    /\ transaction.type # HEARTBEAT
    /\ \A k \in DOMAIN store \cup index \cup {transaction_key} : k.type # HEARTBEAT
C5_Witness ==
    /\ Len(yielded) = 2 /\ yielded[1].type = HEARTBEAT /\ yielded[2].type # HEARTBEAT
    /\ sup_pc = "smembers" /\ queue_length > 0

\* C6: the key generated for a publish attempt differs from the key generated
\* for the attempt before it
C6_KeysDiffer ==
    [][(sup_pc = "keygen" /\ sup_pc' = "setex") => transaction_key' # transaction_key]_vars

\* C7: when run() starts the supervisor, no record and no index is in the store
C7_WipedAtStart ==
    (main_pc = "loop" /\ sup_pc = "top" /\ cycle = 0)
        => (DOMAIN store = {} /\ index = {})

NonHeartbeats(seq) == Cardinality({i \in 1 .. Len(seq) : seq[i].type # HEARTBEAT})
DistinctIds(seq) ==
    \A i, j \in 1 .. Len(seq) :
        (i # j /\ seq[i].type # HEARTBEAT /\ seq[j].type # HEARTBEAT) => seq[i].id # seq[j].id
\* the first connection cycle, begun on a wiped store, with no ConnectionError
\* and no expiry so far, between two events
CleanCycle == cycle = 1 /\ sup_pc = "next" /\ FaultsUsed = 0 /\ TicksUsed = 0

\* C8 (as claimed): in such a cycle the records and the index count both
\* number the non-heartbeat events yielded
C8_CountsEvents ==
    CleanCycle => /\ Cardinality(DOMAIN store) = NonHeartbeats(yielded)
                  /\ Cardinality(index) = NonHeartbeats(yielded)
\* C8 (amended): in such a cycle, for events with distinct ids, the records
\* and the index count both number the non-heartbeat events yielded plus the
\* account-state snapshot when one was published
C8_CountsEventsAndSnapshot ==
    /\ (CleanCycle /\ DistinctIds(yielded)) =>
           /\ Cardinality(DOMAIN store) = NonHeartbeats(yielded) + SnapsUsed
           /\ Cardinality(index) = NonHeartbeats(yielded) + SnapsUsed
           /\ DOMAIN store = index
    /\ (cycle = 1 /\ sup_pc = "reset" /\ FaultsUsed = 0 /\ TicksUsed = 0
            /\ DistinctIds(yielded)) =>
           queue_length = NonHeartbeats(yielded) + SnapsUsed
C8_Witness ==
    /\ CleanCycle /\ SnapsUsed = 1
    /\ Len(yielded) = 3 /\ yielded[1].type = HEARTBEAT
    /\ yielded[2].id = "T1" /\ yielded[3].id = "T2"
    /\ Cardinality(index) = 3

\* C9: a key enters the index only while its record exists with a positive
\* remaining lifetime
C9_LiveAtInsertion ==
    [][\A k \in index' \ index : k \in DOMAIN store /\ store[k] > 0]_vars

\* C10: the index TTL in use exceeds the record TTL in use
C10_IndexOutlives == index_ttl > transaction_ttl

\* C11: for one event connect_to_redis is called at most once and the publish
\* sequence is begun at most twice; the reconnect is entered only from the
\* first attempt; an error of the reconnect or of the retried sequence reaches
\* the outer handler, which adds exactly 1 to retry_count and drops the event
C11_RetriedOnce ==
    /\ [](tries <= 2 /\ connects <= 1 /\ (phase = 2 => connects = 1))
    /\ [][(sup_pc' = "connect" /\ sup_pc \notin {"connect", "conn_sleep"})
             => (phase = 1 /\ tries = 1 /\ connects = 0)]_vars
    /\ [][(sup_pc' = "keygen" /\ sup_pc # "keygen")
             => \/ sup_pc = "next" /\ tries = 0
                \/ sup_pc = "connect" /\ tries = 1]_vars
    /\ [][sup_pc = "except"
             => \/ sup_pc' = "except"
                \/ sup_pc' = "killed"
                \/ /\ sup_pc' = "check"
                   /\ retry_count' = retry_count + 1
                   /\ transaction' = NoEvent]_vars
C11_Witness == sup_pc = "except" /\ phase = 2 /\ tries = 2 /\ connects = 1

\* C12: one call of connect_to_redis makes at most 5 attempts, has slept 2
\* seconds for every failed attempt but the last, and raises to its caller
\* only when the fifth attempt has failed
C12_FiveAttempts ==
    /\ [](/\ attempt \in 0 .. 4
          /\ sup_pc = "connect" => slept = 2 * attempt
          /\ sup_pc = "conn_sleep" => (attempt < 4 /\ slept = 2 * attempt))
    /\ [][(sup_pc = "connect" /\ sup_pc' = "except") => (attempt = 4 /\ slept = 8)]_vars

\* C13: the foreground loop is left only by the interrupt, in particular not
\* after the supervisor has given up, and the supervisor thread ends only by
\* giving up or with that interrupt
C13_OnlyInterruptStops ==
    [][/\ (main_pc = "loop" /\ main_pc' # "loop") => main_pc' = "stopped"
       /\ (sup_pc # "killed" /\ sup_pc' = "killed") => main_pc' = "stopped"]_vars

\* C14: the supervisor is not started, and has written nothing, while run()
\* is still wiping; a step that changes a record, the index, its lifetime or
\* the stream is a step of the wipe made before the thread exists, a step of
\* the supervisor, or the passing of time: never a step of the foreground loop
C14_OneWriter ==
    /\ [](main_pc \in {"wipe_keys", "wipe_delete", "wipe_index", "start"}
             => (sup_pc = "idle" /\ written = {}))
    /\ [][dbvars' # dbvars
             => \/ ticks_left' # ticks_left
                \/ main_pc \in {"wipe_delete", "wipe_index"} /\ sup_pc = "idle"
                \/ /\ main_pc = "loop" /\ main_pc' = "loop"
                   /\ sup_pc \notin {"idle", "killed"} /\ sup_pc' # sup_pc]_vars
C14_Witness ==
    /\ main_pc = "loop" /\ old_keys # {} /\ old_keys \cap DOMAIN store = {}
    /\ written # {} /\ written \subseteq index

\* a step of the cleanup pass (time does not pass in it)
PassStep == sup_pc \in {"smembers", "exists"} /\ sup_pc' # "killed" /\ ticks_left' = ticks_left

\* C15 (as claimed): the pass ends having taken out of the index exactly the
\* keys that have no record
C15_RemovesExactlyStale ==
    [][(PassStep /\ sup_pc' = "reset") => index' = index \ Stale(index, store)]_vars
\* C15 (amended): no step of the pass changes a record or its lifetime or
\* adds a key to the index, and every key it takes out of the index has no
\* record; every key it found without a record is out of the index when a
\* pass that met no ConnectionError returns
C15_PrunesOnlyDead ==
    /\ [][PassStep => /\ store' = store
                      /\ index' \subseteq index
                      /\ \A k \in index \ index' : k \notin DOMAIN store]_vars
    /\ [][(PassStep /\ sup_pc' = "reset" /\ cleanup_ok')
             => index' \cap expired_keys = {}]_vars
C15_Witness ==
    /\ sup_pc = "reset" /\ cleanup_ok
    /\ dead0 # {} /\ index \cap dead0 = {}
    /\ transaction_key \in index /\ transaction_key \in DOMAIN store
    /\ store[transaction_key] = transaction_ttl

\* the supervisor is fetching or publishing the account state
InSnapshot == sup_pc \in {"top", "as_setex", "as_sadd", "as_expire", "as_xadd"}

\* C16: whatever the fetch of the account state and each step of its publish
\* do, retry_count and retry_delay stay as they are, no backoff is entered,
\* and the supervisor goes on to request the event sequence from the broker
C16_SnapshotBestEffort ==
    /\ [][InSnapshot
             => \/ sup_pc' = "killed"
                \/ /\ UNCHANGED <<retry_count, retry_delay, fails, sleeps>>
                   /\ InSnapshot' \/ sup_pc' = "open"]_vars
    /\ [][sup_pc = "open" => sup_pc' \in {"open", "next", "killed"}]_vars
\* the second cycle asks for the feed after its snapshot's sadd has failed:
\* the counter and the delay are those the first cycle's end left
C16_Witness ==
    /\ sup_pc = "open" /\ FaultsUsed = 1 /\ SnapsUsed = 1
    /\ written # {} /\ index = {}
    /\ retry_count = 1 /\ retry_delay = NextDelay(InitialRetryDelay * DelayScale)

\* no publish of the supervisor is in progress
BetweenPublishes ==
    main_pc = "loop"
    /\ sup_pc \in {"top", "open", "next", "ended", "except", "check", "sleep", "given_up"}

\* C17: between publishes every live record this run has written is named
\* by the index
C17_IndexHoldsAll == BetweenPublishes => written \subseteq index

\* C18: the end of the event sequence and an exception are handled alike: 1 is
\* added to retry_count and the give-up check follows, after which the loop
\* either stops or sleeps retry_delay, grows it and starts the next pass; so
\* retry_count is the number of passes ended since the last published
\* transaction: each pass adds 1 exactly once
C18_EndCountsAsFailure ==
    /\ [](/\ sup_pc \in {"top", "check", "sleep", "given_up"} => retry_count = passes
          /\ sup_pc \in {"as_setex", "as_sadd", "as_expire", "as_xadd", "open", "next",
                         "ended", "except"} => retry_count = passes - 1)
    /\ [][(sup_pc = "ended" \/ sup_pc = "except")
             => \/ sup_pc' \in {sup_pc, "killed"}
                \/ /\ UNCHANGED <<retry_delay, sleeps>>
                   /\ sup_pc' = "check" /\ retry_count' = retry_count + 1]_vars
    /\ [][sup_pc = "check"
             => \/ sup_pc' \in {"check", "killed"}
                \/ /\ UNCHANGED <<retry_count, retry_delay>>
                   /\ sup_pc' = IF retry_count >= 10 THEN "given_up" ELSE "sleep"]_vars
    /\ [][sup_pc = "sleep"
             => \/ sup_pc' \in {"sleep", "killed"}
                \/ /\ sup_pc' = "top" /\ UNCHANGED retry_count
                   /\ sleeps' = sleeps + 1
                   /\ retry_delay' = ExpectedDelay(retry_count + 1)]_vars
\* the third pass in a row without a published transaction, its sequence
\* having ended normally, is in its sleep
C18_Witness ==
    /\ sup_pc = "sleep" /\ left_by = "end"
    /\ retry_count = 3 /\ passes = 3 /\ sleeps = 2

\* C19: a heartbeat leaves retry_count and retry_delay as they are, and only
\* the reset after a published transaction lowers them; every cycle that
\* delivered heartbeats only is counted, so that after ten of them in a row
\* the supervisor is at its give-up check or has given up, and the check
\* does give up
C19_HeartbeatsDoNotReset ==
    /\ [][(sup_pc = "next" /\ sup_pc' = "next" /\ feed_left' < feed_left)
             => UNCHANGED <<retry_count, retry_delay>>]_vars
    /\ [][(retry_count' < retry_count \/ retry_delay' < retry_delay)
             => (sup_pc = "reset" \/ sup_pc' = "killed")]_vars
    /\ [](quiet <= retry_count)
    /\ [](quiet >= 10 => sup_pc \in {"check", "given_up"})
    /\ [][(quiet >= 10 /\ sup_pc = "check")
             => sup_pc' \in {"check", "given_up", "killed"}]_vars
C19_Witness ==
    /\ sup_pc = "given_up" /\ quiet = 10 /\ left_by = "end"
    /\ feed_left = 0 /\ written = {} /\ sleeps = 9

\* C20: retry_count stays within 0 .. 10 and retry_delay within 5 .. 60; the
\* loop is left only after 10 passes and 9 sleeps since the last published
\* transaction; and in every run in which, from some point on, no
\* transaction is published, the supervisor gives up (or the process has
\* been ended from outside)
C20_GivesUp ==
    /\ [](/\ retry_count \in 0 .. 10
          /\ retry_delay >= 5 * DelayScale /\ retry_delay <= 60 * DelayScale)
    /\ [](sup_pc = "given_up" => (passes = 10 /\ sleeps = 9 /\ retry_count = 10))
    /\ (<>[](sup_pc # "reset") => <>(sup_pc \in {"given_up", "killed"}))
C20_Witness ==
    /\ sup_pc = "given_up" /\ left_by = "exception"
    /\ passes = 10 /\ sleeps = 9 /\ retry_delay = 60 * DelayScale
====
